---- MODULE Spec2Model ----
(***************************************************************************)
(* Model of main.py of dso-spreadsheet-sanitizer: the command line         *)
(* dispatcher (main) and the three pipelines sanitize_xlsx, sanitize_ods   *)
(* and sanitize_csv, run against a small file system.                      *)
(*                                                                         *)
(* A file is a record [kind, entries, rows]:                               *)
(*   kind = "absent"  no file at that path                                 *)
(*   kind = "junk"    a file that is not a ZIP archive                     *)
(*   kind = "zip"     a closed ZIP archive holding `entries`               *)
(*   kind = "writing" a file opened by ZipFile(path, 'w') and not yet      *)
(*                    closed: truncated, no central directory              *)
(*   kind = "csv"     a header line followed by `rows`                     *)
(*   kind = "empty"   a zero-length file                                   *)
(* An entry is [name, payload]; a payload is [kind, b, canon, elems]:      *)
(*   kind = "bytes"   opaque bytes number b (not well-formed XML)          *)
(*   kind = "xml"     a well-formed document whose sheet / table elements  *)
(*                    are `elems`, in document order; canon tells whether  *)
(*                    the text is the form ET.tostring writes (XML         *)
(*                    declaration, ns0: prefixes) or the author's text     *)
(* An element is [id, attr]: sheetId and state for a sheet, table name and *)
(* display for a table; attr = "none" when the attribute is absent.        *)
(***************************************************************************)
EXTENDS Integers, Sequences, FiniteSets, TLC

VARIABLES fs, fs0, input_file, output_file, ext, remove_macros,
          remove_hidden_sheets, overwrite, pc, infolist, idx, zout, ret,
          exitcode, run, first

vars == <<fs, fs0, input_file, output_file, ext, remove_macros,
          remove_hidden_sheets, overwrite, pc, infolist, idx, zout, ret,
          exitcode, run, first>>

\* Bounds of the model.
MaxEntries == 2
MaxSheets == 2
MaxRows == 2

\* Entry names the pipelines compare against.
VBA == "xl/vbaProject.bin"
WORKBOOK == "xl/workbook.xml"
CONTENT == "content.xml"
APP == "docProps/app.xml"

\* Values of sheet/@state and table/@display; "none" is an absent attribute.
SheetStates == {"none", "visible", "hidden", "veryHidden"}
TableDisplays == {"none", "true", "false"}

Bytes(n) == [kind |-> "bytes", b |-> n, canon |-> FALSE, elems |-> <<>>]
Xml(c, es) == [kind |-> "xml", b |-> 0, canon |-> c, elems |-> es]

Absent == [kind |-> "absent", entries |-> <<>>, rows |-> <<>>]
Junk == [kind |-> "junk", entries |-> <<>>, rows |-> <<>>]
Empty == [kind |-> "empty", entries |-> <<>>, rows |-> <<>>]
Writing == [kind |-> "writing", entries |-> <<>>, rows |-> <<>>]
Zip(es) == [kind |-> "zip", entries |-> es, rows |-> <<>>]
Csv(rs) == [kind |-> "csv", entries |-> <<>>, rows |-> rs]

SeqsUpTo(S, n) == UNION {[1..k -> S] : k \in 0..n}

\* Documents with up to MaxSheets elements; element i carries id i.
Docs(attrs) ==
  {Xml(FALSE, [i \in 1..Len(f) |-> [id |-> i, attr |-> f[i]]]) :
     f \in SeqsUpTo(attrs, MaxSheets)}

InsertAt(s, i, e) == SubSeq(s, 1, i - 1) \o <<e>> \o SubSeq(s, i, Len(s))

\* Entries that are not a descriptor; names may repeat inside a container.
PlainEntries ==
  {[name |-> VBA, payload |-> Bytes(1)],
   [name |-> APP, payload |-> Bytes(1)],
   [name |-> APP, payload |-> Bytes(2)]}

\* Containers of up to MaxEntries entries with at most one entry named
\* `descriptor`, whose payload is a document or bytes that do not parse.
Containers(descriptor, attrs) ==
  SeqsUpTo(PlainEntries, MaxEntries) \cup
  UNION {{InsertAt(s, i, [name |-> descriptor, payload |-> d]) :
            i \in 1..(Len(s) + 1), d \in Docs(attrs) \cup {Bytes(1)}} :
         s \in SeqsUpTo(PlainEntries, MaxEntries - 1)}

\* CSV rows of two fields; "" is a missing field.
CsvRows == [1..2 -> {"", "x"}]

\* An extension (os.path.splitext(input_file)[1]) is the sequence of its
\* characters, so that lower-casing acts on each character.
DotXlsx == <<".", "x", "l", "s", "x">>
DotOds == <<".", "o", "d", "s">>
DotCsv == <<".", "c", "s", "v">>

\* Extensions of the input paths tried: the three supported ones in several
\* spellings, one unsupported, and a path with no extension.
Extensions ==
  {DotXlsx, <<".", "X", "l", "S", "x">>,
   DotOds, <<".", "O", "D", "S">>,
   DotCsv, <<".", "C", "s", "v">>,
   <<".", "t", "x", "t">>, <<".", "X", "L", "S">>, <<>>}

----------------------------------------------------------------------------
\* Library behaviour the pipelines rely on.

UpperLetters ==
  <<"A", "B", "C", "D", "E", "F", "G", "H", "I", "J", "K", "L", "M",
    "N", "O", "P", "Q", "R", "S", "T", "U", "V", "W", "X", "Y", "Z">>

LowerLetters ==
  <<"a", "b", "c", "d", "e", "f", "g", "h", "i", "j", "k", "l", "m",
    "n", "o", "p", "q", "r", "s", "t", "u", "v", "w", "x", "y", "z">>

\* The lower-case letter of each upper-case letter.
LowerOf ==
  [c \in {UpperLetters[k] : k \in DOMAIN UpperLetters} |->
     LowerLetters[CHOOSE k \in DOMAIN UpperLetters : UpperLetters[k] = c]]

\* str.lower() on one character: an upper-case letter becomes its lower-case
\* letter, every other character is kept.
LowerChar(c) == IF c \in DOMAIN LowerOf THEN LowerOf[c] ELSE c

\* str.lower() on the extension (main.py line 227), character by character.
Lower(e) == [k \in DOMAIN e |-> LowerChar(e[k])]

\* os.path.exists(path)
Exists(path) == fs[path].kind # "absent"

\* zin.read(filename): ZipFile looks the name up in NameToInfo, which keeps
\* the last central-directory record of each name.
LastIndexOf(list, name) ==
  CHOOSE i \in 1..Len(list) :
    /\ list[i].name = name
    /\ \A j \in (i + 1)..Len(list) : list[j].name # name

ZinRead(list, name) == list[LastIndexOf(list, name)].payload

\* Reading an entry needs the archive behind zin to be intact: once
\* ZipFile(output_file, 'w') has truncated the same path, the local file
\* header is gone and zin.read raises BadZipFile.
CanRead == fs[input_file].kind = "zip"

\* xml.etree.ElementTree.Element has no getparent() (that is lxml's API):
\* the call raises AttributeError.
ElementHasGetparent == FALSE

\* Element.get(key, default=None) accepts no `namespaces` keyword: the call
\* raises TypeError.
ElementGetTakesNamespaces == FALSE

Raised == [raised |-> TRUE, content |-> Bytes(0)]
Returned(c) == [raised |-> FALSE, content |-> c]

\* ET.tostring(tree, encoding='utf8').decode('utf8')
EtToString(tree) == Xml(TRUE, tree)

RemoveAll(tree, gone) == SelectSeq(tree, LAMBDA e : e \notin gone)

PruneWorkbookDropsFirst(content) ==
  IF content.kind # "xml" THEN Raised
  ELSE IF content.elems = <<>> THEN Returned(EtToString(content.elems))
  ELSE Returned(EtToString(Tail(content.elems)))

\* The try block of sanitize_xlsx, lines 57-75.
PruneWorkbook(content) ==
  IF content.kind # "xml" THEN Raised
  ELSE LET sheets == content.elems
           sheets_to_remove ==
             {sheets[i].id : i \in {j \in 1..Len(sheets) :
                sheets[j].attr = "hidden" \/ sheets[j].attr = "veryHidden"}}
           matched == {sheets[i] : i \in {j \in 1..Len(sheets) :
                         sheets[j].id \in sheets_to_remove}}
       IN  IF matched = {} THEN Returned(EtToString(sheets))
           ELSE IF ElementHasGetparent
                THEN Returned(EtToString(RemoveAll(sheets, matched)))
                ELSE Raised

\* The try block of sanitize_ods, lines 131-147.
PruneContent(content) ==
  IF content.kind # "xml" THEN Raised
  ELSE LET tables == content.elems
           Display(t) == IF t.attr = "none" THEN "true" ELSE t.attr
           tables_to_remove ==
             {tables[i] : i \in {j \in 1..Len(tables) :
                Display(tables[j]) = "false"}}
       IN  IF tables = <<>> THEN Returned(EtToString(tables))
           ELSE IF ~ElementGetTakesNamespaces THEN Raised
           ELSE IF tables_to_remove = {} THEN Returned(EtToString(tables))
           ELSE IF ElementHasGetparent
                THEN Returned(EtToString(RemoveAll(tables, tables_to_remove)))
                ELSE Raised

\* df.dropna(): rows with a missing field are dropped.
DropNa(rows) == SelectSeq(rows, LAMBDA r : \A c \in DOMAIN r : r[c] # "")

----------------------------------------------------------------------------
\* State after the command line is parsed (setup_argparse, main 219-224).

InputFiles(e) ==
  CASE Lower(e) = DotXlsx ->
         {Absent, Junk} \cup {Zip(c) : c \in Containers(WORKBOOK, SheetStates)}
    [] Lower(e) = DotOds ->
         {Absent, Junk} \cup {Zip(c) : c \in Containers(CONTENT, TableDisplays)}
    [] Lower(e) = DotCsv ->
         {Absent, Empty, Junk} \cup {Csv(r) : r \in SeqsUpTo(CsvRows, MaxRows)}
    [] OTHER -> {Absent, Junk}

Init ==
  /\ ext \in Extensions
  /\ input_file = "in"
  /\ output_file \in {"in", "out"}
  /\ \E f \in InputFiles(ext), o \in {Absent, Junk} :
       fs = [p \in {"in", "out", "out2"} |->
               IF p = "in" THEN f ELSE IF p = "out" THEN o ELSE Absent]
  /\ fs0 = fs
  /\ remove_macros \in BOOLEAN
  /\ remove_hidden_sheets \in BOOLEAN
  /\ overwrite \in BOOLEAN
  /\ pc = "main"
  /\ infolist = <<>>
  /\ idx = 1
  /\ zout = <<>>
  /\ ret = "pending"
  /\ exitcode = -1
  /\ run = 1
  /\ first = Absent

args == <<input_file, output_file, ext, remove_macros, remove_hidden_sheets,
          overwrite>>

\* main, lines 226-240: the pipeline is chosen by the lower-cased extension;
\* any other extension logs an error and exits with 1.
Dispatch ==
  /\ pc = "main"
  /\ LET file_extension == Lower(ext)
     IN  \/ /\ file_extension = DotXlsx
            /\ pc' = "xlsx"
            /\ UNCHANGED exitcode
         \/ /\ file_extension = DotOds
            /\ pc' = "ods"
            /\ UNCHANGED exitcode
         \/ /\ file_extension = DotCsv
            /\ pc' = "csv"
            /\ UNCHANGED exitcode
         \/ /\ file_extension \notin {DotXlsx, DotOds, DotCsv}
            /\ pc' = "exited"
            /\ exitcode' = 1
  /\ UNCHANGED <<fs, fs0, args, infolist, idx, zout, ret, run, first>>

OutputBlockedNever == FALSE

\* if os.path.exists(output_file) and not overwrite: return False
OutputBlocked == Exists(output_file) /\ ~overwrite

\* sanitize_xlsx lines 38-44 and sanitize_ods lines 114-123: the overwrite
\* check, then ZipFile(input_file, 'r') (FileNotFoundError, BadZipFile), then
\* ZipFile(output_file, 'w'), which creates or truncates the output path.
OpenArchives(here, loop) ==
  /\ pc = here
  /\ IF OutputBlocked \/ fs[input_file].kind # "zip"
     THEN /\ ret' = "False"
          /\ pc' = "returned"
          /\ UNCHANGED <<fs, infolist, idx, zout>>
     ELSE /\ infolist' = fs[input_file].entries
          /\ fs' = [fs EXCEPT ![output_file] = Writing]
          /\ zout' = <<>>
          /\ idx' = 1
          /\ pc' = loop
          /\ UNCHANGED ret
  /\ UNCHANGED <<fs0, args, exitcode, run, first>>

XlsxOpen == OpenArchives("xlsx", "xlsx_loop")

OdsOpen == OpenArchives("ods", "ods_loop")

\* An exception leaves both `with` blocks: zout is closed, which writes the
\* central directory of what was written so far, and the handlers at lines
\* 91-99 / 164-172 return False.
Abort ==
  /\ fs' = [fs EXCEPT ![output_file] = Zip(zout)]
  /\ ret' = "False"
  /\ pc' = "returned"
  /\ UNCHANGED <<infolist, idx, zout>>

\* zout.writestr(name, data), then the next iteration.
WriteEntry(name, data) ==
  /\ zout' = Append(zout, [name |-> name, payload |-> data])
  /\ idx' = idx + 1
  /\ UNCHANGED <<fs, infolist, ret, pc>>

\* `continue` without writing: the entry is dropped.
SkipEntry ==
  /\ idx' = idx + 1
  /\ UNCHANGED <<fs, infolist, zout, ret, pc>>

\* Lines 85-87 / 157-159: buffer = zin.read(filename); zout.writestr(item, buffer)
CopyEntry(filename) ==
  IF CanRead THEN WriteEntry(filename, ZinRead(infolist, filename)) ELSE Abort

RewriteEntryFailClosed(filename, pruned) ==
  IF ~CanRead \/ pruned.raised THEN Abort
  ELSE WriteEntry(filename, pruned.content)

\* Lines 54-82 / 128-155: read the descriptor, prune it, write the result;
\* on any exception inside the try write zin.read(filename) instead.
RewriteEntry(filename, pruned) ==
  IF ~CanRead THEN Abort
  ELSE IF pruned.raised THEN WriteEntry(filename, ZinRead(infolist, filename))
  ELSE WriteEntry(filename, pruned.content)

DropsMacroNever(filename) == FALSE

\* Line 49: if remove_macros and filename == 'xl/vbaProject.bin'
DropsMacro(filename) == remove_macros /\ filename = VBA

\* One iteration of the loop of sanitize_xlsx, lines 45-87.
XlsxEntry ==
  /\ pc = "xlsx_loop"
  /\ idx <= Len(infolist)
  /\ LET filename == infolist[idx].name
     IN  IF DropsMacro(filename) THEN SkipEntry
         ELSE IF remove_hidden_sheets /\ filename = WORKBOOK
         THEN RewriteEntry(filename, PruneWorkbook(ZinRead(infolist, filename)))
         ELSE CopyEntry(filename)
  /\ UNCHANGED <<fs0, args, exitcode, run, first>>

\* One iteration of the loop of sanitize_ods, lines 124-159.
OdsEntry ==
  /\ pc = "ods_loop"
  /\ idx <= Len(infolist)
  /\ LET filename == infolist[idx].name
     IN  IF remove_hidden_sheets /\ filename = CONTENT
         THEN RewriteEntry(filename, PruneContent(ZinRead(infolist, filename)))
         ELSE CopyEntry(filename)
  /\ UNCHANGED <<fs0, args, exitcode, run, first>>

CloseArchivesIntoInput(loop) ==
  /\ pc = loop
  /\ idx > Len(infolist)
  /\ fs' = [fs EXCEPT ![input_file] = Zip(zout)]
  /\ ret' = "True"
  /\ pc' = "returned"
  /\ UNCHANGED <<fs0, args, infolist, idx, zout, exitcode, run, first>>

\* The loop is over: both archives are closed and the pipeline returns True
\* (lines 88-89 / 161-162).
CloseArchives(loop) ==
  /\ pc = loop
  /\ idx > Len(infolist)
  /\ fs' = [fs EXCEPT ![output_file] = Zip(zout)]
  /\ ret' = "True"
  /\ pc' = "returned"
  /\ UNCHANGED <<fs0, args, infolist, idx, zout, exitcode, run, first>>

XlsxClose == CloseArchives("xlsx_loop")

OdsClose == CloseArchives("ods_loop")

\* sanitize_csv, lines 186-212.
SanitizeCsv ==
  /\ pc = "csv"
  /\ IF OutputBlocked \/ fs[input_file].kind # "csv"
     THEN /\ ret' = "False"
          /\ UNCHANGED fs
     ELSE /\ fs' = [fs EXCEPT ![output_file] = Csv(DropNa(fs[input_file].rows))]
          /\ ret' = "True"
  /\ pc' = "returned"
  /\ UNCHANGED <<fs0, args, infolist, idx, zout, exitcode, run, first>>

ExitAlwaysZero ==
  /\ pc = "returned"
  /\ exitcode' = 0
  /\ pc' = "exited"
  /\ UNCHANGED <<fs, fs0, args, infolist, idx, zout, ret, run, first>>

\* main, lines 230-242: sys.exit(1) when the pipeline returned False,
\* sys.exit(0) otherwise.
Exit ==
  /\ pc = "returned"
  /\ exitcode' = IF ret = "True" THEN 0 ELSE 1
  /\ pc' = "exited"
  /\ UNCHANGED <<fs, fs0, args, infolist, idx, zout, ret, run, first>>

\* The tool is run again with the same options on the archive it has just
\* written, to a new output path of the same extension.
Rerun ==
  /\ pc = "exited"
  /\ run = 1
  /\ exitcode = 0
  /\ Lower(ext) \in {DotXlsx, DotOds}
  /\ output_file # input_file
  /\ input_file' = output_file
  /\ output_file' = "out2"
  /\ first' = fs[output_file]
  /\ fs0' = fs
  /\ run' = 2
  /\ pc' = "main"
  /\ infolist' = <<>>
  /\ idx' = 1
  /\ zout' = <<>>
  /\ ret' = "pending"
  /\ exitcode' = -1
  /\ UNCHANGED <<fs, ext, remove_macros, remove_hidden_sheets, overwrite>>

Next ==
  \/ Dispatch
  \/ XlsxOpen
  \/ XlsxEntry
  \/ XlsxClose
  \/ OdsOpen
  \/ OdsEntry
  \/ OdsClose
  \/ SanitizeCsv
  \/ Exit
  \/ Rerun

Spec == Init /\ [][Next]_vars

----------------------------------------------------------------------------
\* Vocabulary of the properties.

IsXlsx == Lower(ext) = DotXlsx
IsOds == Lower(ext) = DotOds
IsArchive == IsXlsx \/ IsOds
Supported == Lower(ext) \in {DotXlsx, DotOds, DotCsv}

\* The files of this run as they were when it started, and its result.
Source == fs0[input_file]
Result == fs[output_file]
Blocked0 == fs0[output_file].kind # "absent" /\ ~overwrite
Succeeded == pc = "exited" /\ ret = "True"

Descriptor == IF IsXlsx THEN WORKBOOK ELSE CONTENT
Triggers == IF IsXlsx THEN {VBA, WORKBOOK} ELSE {CONTENT}
Hidden(e) == IF IsXlsx THEN e.attr \in {"hidden", "veryHidden"} ELSE e.attr = "false"

NamesOf(es) == [i \in DOMAIN es |-> es[i].name]
ElemSet(p) == {p.elems[i] : i \in DOMAIN p.elems}

\* The source entries a run is to keep: all but a macro entry to be dropped.
Kept(es) == SelectSeq(es, LAMBDA e : ~(IsXlsx /\ remove_macros /\ e.name = VBA))

\* The run got as far as copying: the source is an archive, the output path
\* was free or could be overwritten and is another path than the input.
Transcoding ==
  /\ IsArchive
  /\ Source.kind = "zip"
  /\ ~Blocked0
  /\ output_file # input_file

----------------------------------------------------------------------------
\* C1: after a successful sanitize_xlsx run with remove_hidden_sheets set on
\* an archive whose xl/workbook.xml parses and holds a hidden or veryHidden
\* sheet, the xl/workbook.xml written holds no hidden sheet and every sheet
\* that was not hidden.
C1_HiddenSheetsRemoved ==
  (Succeeded /\ IsXlsx /\ remove_hidden_sheets /\ Source.kind = "zip") =>
    \A i \in DOMAIN Source.entries :
      LET e == Source.entries[i]
      IN  (e.name = WORKBOOK /\ e.payload.kind = "xml"
             /\ \E s \in ElemSet(e.payload) : Hidden(s)) =>
            \E j \in DOMAIN Result.entries :
              LET w == Result.entries[j]
              IN  /\ w.name = WORKBOOK
                  /\ w.payload.kind = "xml"
                  /\ \A s \in ElemSet(w.payload) : ~Hidden(s)
                  /\ \A s \in ElemSet(e.payload) :
                       ~Hidden(s) => s \in ElemSet(w.payload)

\* C2: after a successful sanitize_ods run with remove_hidden_sheets set on
\* an archive whose content.xml parses, the content.xml written holds no
\* table with display "false" and every other table of the source.
C2_HiddenTablesRemoved ==
  (Succeeded /\ IsOds /\ remove_hidden_sheets /\ Source.kind = "zip") =>
    \A i \in DOMAIN Source.entries :
      LET e == Source.entries[i]
      IN  (e.name = CONTENT /\ e.payload.kind = "xml") =>
            \E j \in DOMAIN Result.entries :
              LET w == Result.entries[j]
              IN  /\ w.name = CONTENT
                  /\ w.payload.kind = "xml"
                  /\ \A t \in ElemSet(w.payload) : ~Hidden(t)
                  /\ \A t \in ElemSet(e.payload) :
                       ~Hidden(t) => t \in ElemSet(w.payload)

\* C3: with remove_macros and remove_hidden_sheets both off, a run on any
\* archive that opens succeeds and writes an archive with the same entry
\* names in the same order and the same payload bytes.  Stated for the runs
\* that copy to a path other than their input, where nothing but the copy
\* itself decides the result.
C3_RoundTrip ==
  (pc = "exited" /\ Transcoding /\ ~remove_macros /\ ~remove_hidden_sheets) =>
    /\ ret = "True"
    /\ exitcode = 0
    /\ Result = Zip(Source.entries)

\* C4: after a successful run under any options the output holds the source
\* entries in source order, less only a dropped macro entry, and every entry
\* whose name is not a trigger name carries its own source payload.
C4_OrderAndBytes ==
  (Succeeded /\ IsArchive /\ Source.kind = "zip") =>
    LET kept == Kept(Source.entries)
    IN  /\ NamesOf(Result.entries) = NamesOf(kept)
        /\ \A k \in DOMAIN kept :
             kept[k].name \notin Triggers =>
               Result.entries[k].payload = kept[k].payload

\* C5: a successful sanitize_xlsx run with remove_macros set writes no entry
\* named xl/vbaProject.bin; with remove_macros off the entry is written
\* whenever the source holds it.
C5_MacroEntry ==
  (Succeeded /\ IsXlsx /\ Source.kind = "zip") =>
    LET HasVba(es) == \E i \in DOMAIN es : es[i].name = VBA
    IN  /\ remove_macros => ~HasVba(Result.entries)
        /\ ~remove_macros => (HasVba(Source.entries) => HasVba(Result.entries))

C5_Witness ==
  /\ Succeeded /\ IsXlsx /\ Source.kind = "zip" /\ remove_macros
  /\ \E i \in DOMAIN Source.entries : Source.entries[i].name = VBA
  /\ Result.kind = "zip"
  /\ Len(Result.entries) = Len(Source.entries) - 1
  /\ Len(Result.entries) > 0

\* C6: when the output path exists and overwrite is off, no pipeline opens
\* the input or the output: the file system stays as it was whatever the
\* input is, the pipeline returns False and the process exits with 1.
C6_ExistingOutputUntouched ==
  (Supported /\ Blocked0) =>
    /\ fs = fs0
    /\ pc \notin {"xlsx_loop", "ods_loop"}
    /\ pc \in {"returned", "exited"} => ret = "False"
    /\ pc = "exited" => exitcode = 1

C6_Witness ==
  /\ Supported /\ Blocked0 /\ pc = "exited"
  /\ output_file = "out"
  /\ Source.kind \in {"zip", "csv"}
  /\ exitcode = 1

\* C7: with remove_hidden_sheets set, a descriptor entry that does not parse
\* is written once, with its source payload, at its source position among
\* the kept entries; the entries after it are processed and the run
\* succeeds.
C7_FailOpen ==
  (pc = "exited" /\ Transcoding /\ remove_hidden_sheets) =>
    \A i \in DOMAIN Source.entries :
      LET e == Source.entries[i]
          pos == Len(Kept(SubSeq(Source.entries, 1, i)))
      IN  (e.name = Descriptor /\ e.payload.kind # "xml") =>
            /\ ret = "True"
            /\ exitcode = 0
            /\ Len(Result.entries) = Len(Kept(Source.entries))
            /\ Result.entries[pos] = e
            /\ Cardinality({j \in DOMAIN Result.entries :
                              Result.entries[j].name = Descriptor}) = 1

C7_Witness ==
  /\ pc = "exited" /\ Transcoding /\ remove_hidden_sheets
  /\ Len(Source.entries) = 2
  /\ Source.entries[1].name = Descriptor
  /\ Source.entries[1].payload.kind # "xml"
  /\ Result.entries = Source.entries

\* C8: a second run with remove_hidden_sheets set, on the archive a first
\* such run wrote, succeeds and writes the same entry names in the same order
\* and a descriptor with the same set of sheet / table elements.
C8_Idempotent ==
  (run = 2 /\ pc = "exited" /\ remove_hidden_sheets) =>
    /\ ret = "True"
    /\ NamesOf(Result.entries) = NamesOf(first.entries)
    /\ \A i \in DOMAIN first.entries :
         first.entries[i].name = Descriptor =>
           /\ Result.entries[i].payload.kind = first.entries[i].payload.kind
           /\ ElemSet(Result.entries[i].payload) = ElemSet(first.entries[i].payload)
           /\ first.entries[i].payload.kind # "xml" =>
                Result.entries[i].payload = first.entries[i].payload

C8_Witness ==
  /\ run = 2 /\ pc = "exited" /\ remove_hidden_sheets
  /\ \E i \in DOMAIN first.entries :
       /\ first.entries[i].name = Descriptor
       /\ first.entries[i].payload.kind = "xml"
       /\ first.entries[i].payload.canon
       /\ ElemSet(first.entries[i].payload) # {}
       /\ Result.entries[i] = first.entries[i]

\* C9: the process exits with 0 exactly when the extension selects a
\* pipeline and that pipeline returns True; an unrecognised extension, an
\* existing output without overwrite, a missing or corrupt input and an
\* error raised while copying all exit with 1, and an unrecognised extension
\* leaves the file system alone.
C9_ExitSignal ==
  /\ ~Supported => (fs = fs0 /\ ret = "pending" /\ pc \in {"main", "exited"})
  /\ pc = "exited" =>
       /\ exitcode \in {0, 1}
       /\ exitcode = 0 <=> (Supported /\ ret = "True")
       /\ ~Supported => exitcode = 1
       /\ Blocked0 => exitcode = 1
       /\ Source.kind \in {"absent", "junk", "empty"} => exitcode = 1
       /\ (IsArchive /\ Result.kind = "zip" /\ Source.kind = "zip"
             /\ Len(Result.entries) < Len(Kept(Source.entries))) => exitcode = 1

C9_Witness ==
  /\ pc = "exited" /\ exitcode = 1 /\ ret = "False"
  /\ IsArchive /\ Source.kind = "zip" /\ ~Blocked0
  /\ Len(Source.entries) = 2

\* C10 as stated: after any run of sanitize_xlsx or sanitize_ods, whatever
\* the output path and the options, the input file is as it was before.
C10_InputNeverChanges ==
  (IsArchive /\ pc = "exited") => fs[input_file] = fs0[input_file]

\* C10 amended: the input file keeps its bytes unless the output path is the
\* input path and overwrite is set.
C10_InputKeptUnlessOverwritten ==
  (IsArchive /\ ~(output_file = input_file /\ overwrite)) =>
    fs[input_file] = fs0[input_file]

C10_Witness ==
  /\ IsArchive /\ pc = "exited" /\ ret = "True"
  /\ output_file # input_file
  /\ Len(Source.entries) = 2
  /\ Result.kind = "zip"
  /\ Result # Source
  /\ fs[input_file] = fs0[input_file]

====
